---- MODULE Spec2Model ----
(***************************************************************************)
(* Model of fvm/src/kernel/error.rs: the ExecutionError taxonomy and its   *)
(* exit_code, the conversions from subsystem errors, and the transport of  *)
(* an ExecutionError through a wasmtime Trap by means of ErrorEnvelope.    *)
(*                                                                         *)
(* Two specifications share the variables:                                 *)
(*   SpecTaxonomy  builds ExecutionErrors at a failure site (directly or   *)
(*                 through a From conversion) and reads their exit code;   *)
(*   Spec          wraps ExecutionErrors into Traps and lets several       *)
(*                 threads convert delivered Traps back.                   *)
(***************************************************************************)
EXTENDS Integers, Sequences, FiniteSets, TLC

\* ---------------------------------------------------------------- bounds
NumThreads == 2
MaxCarriers == 1
MaxNest == 1
NumMessages == 3
NumCids == 2

Threads == 1..NumThreads

\* ------------------------------------------------- exit codes and strings
\* fvm_shared::error::ExitCode values the file names, and two more that an
\* ActorError or an advised syscall code may carry.
ExitCodes == {"SysErrIllegalActor", "SysErrIllegalArgument", "ErrIllegalState",
              "ErrForbidden", "ErrPlaceholder"}

\* Option<ExitCode>::None of SyscallError.1
NoCode == "None"

\* A string is a sequence of text fragments.
MessageText == <<"bad argument", "out of range", "not found", "limit", "denied">>

Messages == {<<MessageText[i]>> : i \in 1..NumMessages}

\* Display of a Cid: the key k is a number, its textual form a string.
CidText == <<"bafy-a", "bafy-b", "bafy-c", "bafy-d">>

CidToString(k) == CidText[k]

\* ------------------------------------------------------- ExecutionError
\* Option<ExecutionError>::None
NoError == [variant |-> "None", code |-> NoCode, msg |-> <<>>]

\* ExecutionError::Actor(ActorError { exit_code, msg })
Actor(code, msg) == [variant |-> "Actor", code |-> code, msg |-> msg]

\* SyscallError(pub String, pub Option<ExitCode>)
SyscallError(msg, optCode) == [variant |-> "Syscall", code |-> optCode, msg |-> msg]

\* ExecutionError::Syscall(SyscallError)
Syscall(se) == se

\* ExecutionError::SystemError(anyhow::Error)
SystemError(msg) == [variant |-> "SystemError", code |-> NoCode, msg |-> msg]

\* actor_error!(code; msg)
actor_error(code, msg) == Actor(code, msg)

\* ActorError::exit_code
ActorError_exit_code(e) == e.code

\* Option::unwrap_or
unwrap_or(opt, default) == IF opt = NoCode THEN default ELSE opt

exit_code_swapped(e) ==
    CASE e.variant = "Actor" -> ActorError_exit_code(e)
      [] e.variant = "SystemError" -> "ErrPlaceholder"
      [] e.variant = "Syscall" -> IF e.code = NoCode THEN "SysErrIllegalArgument" ELSE e.code

\* ExecutionError::exit_code
exit_code(e) ==
    CASE e.variant = "Actor" -> ActorError_exit_code(e)
      [] e.variant = "SystemError" -> "ErrPlaceholder"
      [] e.variant = "Syscall" -> unwrap_or(e.code, "ErrPlaceholder")

\* impl From<String> for SyscallError
SyscallErrorFromString(s) == SyscallError(s, NoCode)

\* impl From<&str> for SyscallError  (s.to_owned())
SyscallErrorFromStr(s) == SyscallError(s, NoCode)

\* ------------------------------------------------------------ BlockError
BlockTags == {"Unreachable", "InvalidHandle", "InvalidMultihashSpec",
              "InvalidCodec", "TooManyBlocks", "MissingState"}

NoBlock == [tag |-> "NoBlock", key |-> 0]

BlockErrors == {[tag |-> t, key |-> 0] : t \in BlockTags \ {"MissingState"}}
               \cup {[tag |-> "MissingState", key |-> k] : k \in 1..NumCids}

\* e.to_string() of a BlockError: its Display text, one per variant
BlockErrorToString(b) == <<"block error: ", b.tag>>

FromBlockError_flat(b) ==
    IF b.tag = "MissingState"
    THEN SystemError(<<"missing block: ", CidToString(b.key)>>)
    ELSE actor_error("SysErrIllegalArgument", BlockErrorToString(b))

\* impl From<blocks::BlockError> for ExecutionError
FromBlockError(b) ==
    CASE b.tag \in {"Unreachable", "InvalidHandle", "InvalidMultihashSpec", "InvalidCodec"}
            -> actor_error("SysErrIllegalArgument", BlockErrorToString(b))
      [] b.tag = "TooManyBlocks"
            -> actor_error("SysErrIllegalActor", BlockErrorToString(b))
      [] b.tag = "MissingState"
            -> SystemError(<<"missing block: ", CidToString(b.key)>>)

\* The other subsystem errors: all become SystemError.
Domains == {"encoding::Error", "encoding::error::Error", "ipld_hamt::Error",
            "cid::Error", "address::Error", "Box<dyn Error>"}

\* impl From<encoding::Error>, From<encoding::error::Error>, From<ipld_hamt::Error>,
\* From<cid::Error>, From<address::Error>, From<Box<dyn Error>> for ExecutionError
FromSubsystem(d, text) ==
    IF d = "ipld_hamt::Error"
    THEN SystemError(<<"Debug: ">> \o text)     \* anyhow!("{:?}", e)
    ELSE SystemError(text)                      \* e.into() / anyhow!(e.to_string())

\* ------------------------------------------------------ Trap and envelope
NoNode == [type |-> "None", id |-> 0]

\* a cause that is an ErrorEnvelope: carrier number c
EnvelopeNode(c) == [type |-> "ErrorEnvelope", id |-> c]

\* a cause of any other type
OtherNode == [type |-> "Other", id |-> 0]

NoTrap == [chain |-> <<>>, desc |-> "no trap"]

\* #[display(fmt = "wrapping error")]
ErrorEnvelopeDisplay == "wrapping error"

\* Mutex::new(v): unlocked (holder 0), holding v
MutexNew(v) == [holder |-> 0, value |-> v]

ErrorEnvelope_wrap_empty(e) == [inner |-> MutexNew(NoError)]

\* ErrorEnvelope::wrap
ErrorEnvelope_wrap(e) == [inner |-> MutexNew(e)]

\* impl Error for ErrorEnvelope: source() is the envelope itself
ErrorEnvelope_source(node) == node

\* Trap::from(Box<dyn Error>) of envelope c: the envelope is what source() yields
TrapFromEnvelope(c) == [chain |-> <<ErrorEnvelope_source(EnvelopeNode(c))>>,
                        desc |-> ErrorEnvelopeDisplay]

TrapSource_root(trap) == IF trap.chain = <<>> THEN NoNode ELSE trap.chain[Len(trap.chain)]

\* Trap::source(): the immediate cause, if any
TrapSource(trap) == IF trap.chain = <<>> THEN NoNode ELSE trap.chain[1]

DowncastEnvelope_never(node) == NoNode

\* downcast_ref::<ErrorEnvelope>()
DowncastEnvelope(node) == IF node.type = "ErrorEnvelope" THEN node ELSE NoNode

\* position of the first envelope of a cause chain, 0 when there is none
FirstEnvelopeAt(chain) ==
    IF \E i \in DOMAIN chain : chain[i].type = "ErrorEnvelope"
    THEN CHOOSE i \in DOMAIN chain :
            /\ chain[i].type = "ErrorEnvelope"
            /\ \A j \in 1..(i - 1) : chain[j].type # "ErrorEnvelope"
    ELSE 0

FindEnvelope_walk(trap) ==
    IF FirstEnvelopeAt(trap.chain) = 0 THEN NoNode
    ELSE trap.chain[FirstEnvelopeAt(trap.chain)]

\* e.source().and_then(|e| e.downcast_ref::<ErrorEnvelope>())
FindEnvelope(trap) ==
    IF TrapSource(trap) = NoNode THEN NoNode ELSE DowncastEnvelope(TrapSource(trap))

\* Option::take on the slot: what is taken and what is left
OptionTake_clone(slot) == [taken |-> slot, left |-> slot]

OptionTake(slot) == [taken |-> slot, left |-> NoError]

SystemErrorFromTrap_syscall(trap) == Syscall(SyscallError(<<trap.desc>>, NoCode))

\* ExecutionError::SystemError(e.into()): anyhow::Error built from the Trap
SystemErrorFromTrap(trap) == SystemError(<<trap.desc>>)

\* .unwrap_or_else(|| ExecutionError::SystemError(e.into()))
UnwrapOrElse(opt, trap) == IF opt # NoError THEN opt ELSE SystemErrorFromTrap(trap)

AfterTake_retry(opt) == IF opt = NoError THEN "waiting" ELSE "done"

\* control after .and_then(|mut e| e.take()): unwrap_or_else returns in both
\* cases; the envelope's self-referential source is not followed again
AfterTake(opt) == "done"

\* ---------------------------------------------------------------- engine
OtherChain(k) == [i \in 1..k |-> OtherNode]

\* failures the engine raises itself: no cause, or causes of other types
ForeignTraps ==
    {[chain |-> OtherChain(k), desc |-> IF k = 0 THEN "wasm trap" ELSE "foreign error"]
        : k \in 0..MaxNest}

\* the engine re-exports a trap under k intermediate causes (k = 0: unchanged)
EngineReexport(trap, k) ==
    IF k = 0 THEN trap
    ELSE [chain |-> OtherChain(k) \o trap.chain, desc |-> "foreign error"]

\* -------------------------------------------------------------- variables
VARIABLES
    err,        \* the ExecutionError at the failure site, or NoError
    origin,     \* how err was built
    code,       \* the exit code last read from err, "unread" before
    carriers,   \* the ErrorEnvelopes allocated so far
    traps,      \* traps[c]: the Trap returned by the wrap that made carrier c
    hist,       \* per carrier: the wrapped error, ever attempted, extractions
    pc,         \* per thread: position in From<Trap> for ExecutionError
    arg,        \* per thread: the Trap being converted
    result,     \* per thread: the ExecutionError returned
    obs         \* per thread: took the slot's value, first attempt on the carrier, waited

vars == <<err, origin, code, carriers, traps, hist, pc, arg, result, obs>>

taxonomyVars == <<err, origin, code>>
bridgeVars == <<carriers, traps, hist, pc, arg, result, obs>>

NoObs == [took |-> FALSE, first |-> FALSE, waited |-> FALSE]

NoOrigin == [from |-> "none", block |-> NoBlock]

Init ==
    /\ err = NoError
    /\ origin = NoOrigin
    /\ code = "unread"
    /\ carriers = <<>>
    /\ traps = <<>>
    /\ hist = <<>>
    /\ pc = [t \in Threads |-> "idle"]
    /\ arg = [t \in Threads |-> NoTrap]
    /\ result = [t \in Threads |-> NoError]
    /\ obs = [t \in Threads |-> NoObs]

\* ------------------------------------------------------ taxonomy actions
Raise(e, from, b) ==
    /\ err' = e
    /\ origin' = [from |-> from, block |-> b]
    /\ code' = "unread"
    /\ UNCHANGED bridgeVars

RaiseActor == \E c \in ExitCodes, m \in Messages : Raise(Actor(c, m), "ActorError", NoBlock)

RaiseSyscall ==
    \E m \in Messages, oc \in ExitCodes \cup {NoCode} :
        Raise(Syscall(SyscallError(m, oc)), "SyscallError", NoBlock)

RaiseSyscallFromString ==
    \E m \in Messages : Raise(Syscall(SyscallErrorFromString(m)), "String", NoBlock)

RaiseSyscallFromStr ==
    \E m \in Messages : Raise(Syscall(SyscallErrorFromStr(m)), "&str", NoBlock)

RaiseSystem == \E m \in Messages : Raise(SystemError(m), "anyhow::Error", NoBlock)

RaiseBlock == \E b \in BlockErrors : Raise(FromBlockError(b), "BlockError", b)

RaiseSubsystem == \E d \in Domains, m \in Messages : Raise(FromSubsystem(d, m), d, NoBlock)

ReadExitCode ==
    /\ err # NoError
    /\ code' = exit_code(err)
    /\ UNCHANGED <<err, origin>>
    /\ UNCHANGED bridgeVars

NextTaxonomy ==
    \/ RaiseActor
    \/ RaiseSyscall
    \/ RaiseSyscallFromString
    \/ RaiseSyscallFromStr
    \/ RaiseSystem
    \/ RaiseBlock
    \/ RaiseSubsystem
    \/ ReadExitCode

SpecTaxonomy == Init /\ [][NextTaxonomy]_vars

\* -------------------------------------------------------- bridge actions
BridgeCodes == {"SysErrIllegalArgument", "ErrPlaceholder"}

BridgeMessages == {<<MessageText[1]>>}

\* the ExecutionErrors handed to wrap
BridgeErrors ==
    {Actor(c, m) : c \in BridgeCodes, m \in BridgeMessages}
    \cup {Syscall(SyscallError(m, oc)) : m \in BridgeMessages, oc \in BridgeCodes \cup {NoCode}}
    \cup {SystemError(m) : m \in BridgeMessages}

\* impl From<ExecutionError> for Trap
Wrap(e) ==
    /\ Len(carriers) < MaxCarriers
    /\ carriers' = Append(carriers, ErrorEnvelope_wrap(e))
    /\ traps' = Append(traps, TrapFromEnvelope(Len(carriers) + 1))
    /\ hist' = Append(hist, [wrapped |-> e, touched |-> FALSE, extracted |-> 0])
    /\ UNCHANGED <<pc, arg, result, obs>>
    /\ UNCHANGED taxonomyVars

\* the traps the engine can deliver to an invoker
Deliverable ==
    ForeignTraps
    \cup {EngineReexport(traps[c], k) : c \in DOMAIN traps, k \in 0..MaxNest}

\* inner.lock() succeeding: thread t holds the mutex of carrier c
Acquire(t, c) ==
    /\ carriers' = [carriers EXCEPT ![c].inner.holder = t]
    /\ pc' = [pc EXCEPT ![t] = "locked"]

\* the carrier that is the immediate source of a trap, 0 when there is none
\* (for the history only)
LeadsTo(trap) ==
    IF trap.chain # <<>> /\ trap.chain[1].type = "ErrorEnvelope" THEN trap.chain[1].id ELSE 0

\* From<Trap> for ExecutionError, up to the call of inner.lock()
UnwrapStart(t, trap) ==
    /\ pc[t] = "idle"
    /\ arg' = [arg EXCEPT ![t] = trap]
    /\ hist' = IF LeadsTo(trap) = 0 THEN hist
               ELSE [hist EXCEPT ![LeadsTo(trap)].touched = TRUE]
    /\ LET node == FindEnvelope(trap)
           isFirst == LeadsTo(trap) # 0 /\ ~hist[LeadsTo(trap)].touched
       IN
         IF node = NoNode
         THEN /\ result' = [result EXCEPT ![t] = UnwrapOrElse(NoError, trap)]
              /\ pc' = [pc EXCEPT ![t] = "done"]
              /\ obs' = [obs EXCEPT ![t].first = isFirst]
              /\ UNCHANGED carriers
         ELSE IF carriers[node.id].inner.holder = 0
              THEN /\ Acquire(t, node.id)
                   /\ obs' = [obs EXCEPT ![t].first = isFirst]
                   /\ UNCHANGED result
              ELSE /\ pc' = [pc EXCEPT ![t] = "waiting"]
                   /\ obs' = [obs EXCEPT ![t].first = isFirst, ![t].waited = TRUE]
                   /\ UNCHANGED <<carriers, result>>
    /\ UNCHANGED traps
    /\ UNCHANGED taxonomyVars

\* inner.lock() returns once the holder has released the mutex
UnwrapWake(t) ==
    /\ pc[t] = "waiting"
    /\ LET c == FindEnvelope(arg[t]).id IN
         /\ carriers[c].inner.holder = 0
         /\ Acquire(t, c)
    /\ UNCHANGED <<arg, result, traps, hist, obs>>
    /\ UNCHANGED taxonomyVars

\* e.take() under the guard, the guard's drop, and unwrap_or_else
UnwrapTake(t) ==
    /\ pc[t] = "locked"
    /\ LET c == FindEnvelope(arg[t]).id
           o == OptionTake(carriers[c].inner.value)
       IN /\ carriers' = [carriers EXCEPT ![c].inner = [holder |-> 0, value |-> o.left]]
          /\ result' = [result EXCEPT ![t] = UnwrapOrElse(o.taken, arg[t])]
          /\ obs' = [obs EXCEPT ![t].took = (o.taken # NoError)]
          /\ hist' = [hist EXCEPT ![c].extracted =
                         IF o.taken # NoError THEN @ + 1 ELSE @]
          /\ pc' = [pc EXCEPT ![t] = AfterTake(o.taken)]
    /\ UNCHANGED <<arg, traps>>
    /\ UNCHANGED taxonomyVars

\* the invoker is done with the returned error
Return(t) ==
    /\ pc[t] = "done"
    /\ pc' = [pc EXCEPT ![t] = "idle"]
    /\ arg' = [arg EXCEPT ![t] = NoTrap]
    /\ result' = [result EXCEPT ![t] = NoError]
    /\ obs' = [obs EXCEPT ![t] = NoObs]
    /\ UNCHANGED <<carriers, traps, hist>>
    /\ UNCHANGED taxonomyVars

Next ==
    \/ \E e \in BridgeErrors : Wrap(e)
    \/ \E t \in Threads : \E trap \in Deliverable : UnwrapStart(t, trap)
    \/ \E t \in Threads : UnwrapWake(t)
    \/ \E t \in Threads : UnwrapTake(t)
    \/ \E t \in Threads : Return(t)

Spec == Init /\ [][Next]_vars

\* =================================================================== claims

\* C1: an attempt that is the first made on the carrier of a Trap delivered
\* unchanged (the envelope is its immediate source) returns the wrapped error:
\* same variant, same exit code, same message.
C1_RoundTrip ==
    \A t \in Threads : \A c \in DOMAIN traps :
        (pc[t] = "done" /\ arg[t] = traps[c] /\ arg[t].chain = <<EnvelopeNode(c)>>
            /\ obs[t].first)
        => /\ result[t].variant = hist[c].wrapped.variant
           /\ result[t].code = hist[c].wrapped.code
           /\ result[t].msg = hist[c].wrapped.msg
           /\ exit_code(result[t]) = exit_code(hist[c].wrapped)

C1_Witness ==
    \E t \in Threads : \E c \in DOMAIN traps :
        /\ pc[t] = "done" /\ arg[t] = traps[c] /\ obs[t].first
        /\ result[t].variant = "Syscall" /\ result[t].code # NoCode

\* C2: for each carrier at most one attempt ever takes the wrapped error out
\* of the slot; every other attempt that reached the carrier returns the
\* SystemError built from its Trap.
C2_ExtractOnce ==
    /\ \A c \in DOMAIN hist : hist[c].extracted <= 1
    /\ \A c \in DOMAIN hist :
         Cardinality({t \in Threads : pc[t] = "done" /\ obs[t].took
                                      /\ arg[t].chain # <<>>
                                      /\ arg[t].chain[1] = EnvelopeNode(c)}) <= 1
    /\ \A t \in Threads :
         (pc[t] = "done" /\ arg[t].chain # <<>> /\ arg[t].chain[1].type = "ErrorEnvelope"
            /\ ~obs[t].took)
         => /\ result[t].variant = "SystemError"
            /\ result[t].msg = <<arg[t].desc>>

C2_Witness ==
    \E t, u \in Threads : \E c \in DOMAIN hist :
        /\ t # u
        /\ pc[t] = "done" /\ pc[u] = "done"
        /\ arg[t] = traps[c] /\ arg[u] = traps[c]
        /\ obs[t].took /\ ~obs[u].took
        /\ hist[c].extracted = 1

\* C3: an attempt on a Trap whose immediate source is absent or is not an
\* ErrorEnvelope finishes in one step, returns the SystemError built from
\* that Trap, and leaves every carrier unchanged.
C3_ForeignDegrades ==
    [][\A t \in Threads :
         LET tr == IF pc[t] = "idle" THEN arg'[t] ELSE arg[t]
             foreign == tr # NoTrap
                        /\ (tr.chain = <<>> \/ tr.chain[1].type # "ErrorEnvelope")
         IN (pc'[t] # pc[t] /\ pc[t] # "done" /\ foreign)
            => /\ pc'[t] = "done"
               /\ result'[t].variant = "SystemError"
               /\ result'[t].msg = <<tr.desc>>
               /\ carriers' = carriers]_vars

C3_Witness ==
    \E t \in Threads : \E c \in DOMAIN carriers :
        /\ pc[t] = "done"
        /\ arg[t].chain # <<>> /\ arg[t].chain[1].type = "Other"
        /\ carriers[c].inner.value # NoError

\* C4: the exit code read from an error is the ActorError's code for Actor,
\* ErrPlaceholder for SystemError, the advised code or else ErrPlaceholder
\* for Syscall; a SyscallError made from a String or &str gives ErrPlaceholder.
C4_ExitCode ==
    code # "unread"
    => /\ code \in ExitCodes
       /\ err.variant = "Actor" => code = err.code
       /\ err.variant = "SystemError" => code = "ErrPlaceholder"
       /\ (err.variant = "Syscall" /\ err.code # NoCode) => code = err.code
       /\ (err.variant = "Syscall" /\ err.code = NoCode) => code = "ErrPlaceholder"
       /\ origin.from \in {"String", "&str"} => code = "ErrPlaceholder"

C4_Witness ==
    /\ code = "ErrPlaceholder"
    /\ origin.from = "&str"
    /\ err.variant = "Syscall"

\* C5: a BlockError converts to Actor/SysErrIllegalArgument for Unreachable,
\* InvalidHandle, InvalidMultihashSpec and InvalidCodec, to
\* Actor/SysErrIllegalActor for TooManyBlocks, and to a SystemError whose
\* message contains the key's text for MissingState; never to Syscall.
C5_BlockDispatch ==
    origin.from = "BlockError"
    => LET b == origin.block IN
       /\ err.variant # "Syscall"
       /\ b.tag \in {"Unreachable", "InvalidHandle", "InvalidMultihashSpec", "InvalidCodec"}
            => /\ err.variant = "Actor"
               /\ err.code = "SysErrIllegalArgument"
               /\ code \in {"unread", "SysErrIllegalArgument"}
       /\ b.tag = "TooManyBlocks"
            => /\ err.variant = "Actor"
               /\ err.code = "SysErrIllegalActor"
               /\ code \in {"unread", "SysErrIllegalActor"}
       /\ b.tag = "MissingState"
            => /\ err.variant = "SystemError"
               /\ \E i \in DOMAIN err.msg : err.msg[i] = CidText[b.key]
               /\ code \in {"unread", "ErrPlaceholder"}

C5_Witness ==
    /\ origin.from = "BlockError"
    /\ origin.block.tag = "TooManyBlocks"
    /\ code = "SysErrIllegalActor"

\* C6: every error an attempt returns is a SystemError or is exactly the
\* error wrapped into the carrier its Trap leads to; a wrapped SystemError
\* comes back as a SystemError.
C6_ClassPreserved ==
    \A t \in Threads :
        pc[t] = "done"
        => /\ \/ result[t].variant = "SystemError"
              \/ /\ arg[t].chain # <<>>
                 /\ arg[t].chain[1].type = "ErrorEnvelope"
                 /\ result[t] = hist[arg[t].chain[1].id].wrapped
           /\ \A c \in DOMAIN hist :
                (hist[c].wrapped.variant = "SystemError"
                    /\ \E i \in DOMAIN arg[t].chain : arg[t].chain[i] = EnvelopeNode(c))
                => result[t].variant = "SystemError"

C6_Witness ==
    \E t, u \in Threads : \E c \in DOMAIN hist :
        /\ pc[t] = "done" /\ pc[u] = "done"
        /\ arg[t] = traps[c] /\ arg[u] = traps[c]
        /\ hist[c].wrapped.variant = "Actor"
        /\ result[t].variant = "Actor"
        /\ result[u].variant = "SystemError"

\* C7 as stated: no attempt ever waits for a carrier's lock.
C7_NeverWaits == \A t \in Threads : pc[t] # "waiting"

\* C7 amended: inner.lock() blocks. An attempt that finds the lock held waits;
\* the holder is then an attempt about to take and release, so the wait ends;
\* once the waiter has the lock it finds the slot empty and returns the
\* SystemError built from its Trap.
C7_WaitsThenDegrades ==
    \A t \in Threads :
        /\ pc[t] = "waiting"
             => LET h == carriers[arg[t].chain[1].id].inner.holder IN
                h = 0 \/ (h \in Threads \ {t} /\ pc[h] = "locked")
        /\ (obs[t].waited /\ pc[t] = "locked")
             => carriers[arg[t].chain[1].id].inner.value = NoError
        /\ (obs[t].waited /\ pc[t] = "done")
             => /\ ~obs[t].took
                /\ result[t].variant = "SystemError"
                /\ result[t].msg = <<arg[t].desc>>

C7_Witness ==
    \E t \in Threads : obs[t].waited /\ pc[t] = "done"

\* C8 as stated: an attempt on a Trap with a carrier anywhere in its cause
\* chain recovers the wrapped error unless the slot was already empty.
C8_FoundAnywhere ==
    \A t \in Threads : \A c \in DOMAIN carriers :
        (pc[t] = "done" /\ ~obs[t].took
            /\ \E i \in DOMAIN arg[t].chain : arg[t].chain[i] = EnvelopeNode(c))
        => carriers[c].inner.value = NoError

\* C8 amended: only the immediate source is inspected. An occupied carrier
\* that is the Trap's immediate source is recovered; a carrier below an
\* intermediate cause is not found: the attempt returns the SystemError
\* built from the Trap and takes nothing.
C8_ImmediateOnly ==
    \A t \in Threads : \A c \in DOMAIN carriers :
        (pc[t] = "done" /\ arg[t].chain # <<>>)
        => /\ (arg[t].chain[1] = EnvelopeNode(c) /\ ~obs[t].took)
                => carriers[c].inner.value = NoError
           /\ (arg[t].chain[1] = OtherNode
                 /\ \E i \in DOMAIN arg[t].chain : arg[t].chain[i] = EnvelopeNode(c))
                => /\ ~obs[t].took
                   /\ result[t] = SystemError(<<arg[t].desc>>)

C8_Witness ==
    \E t \in Threads : \E c \in DOMAIN carriers :
        /\ pc[t] = "done"
        /\ arg[t].chain = <<OtherNode, EnvelopeNode(c)>>
        /\ carriers[c].inner.value # NoError
        /\ result[t].variant = "SystemError"

\* C9: every step of an attempt moves it strictly closer to its return
\* (idle, waiting, locked, done), so an attempt returns after at most three
\* steps; an attempt that holds the lock of a carrier with an empty slot
\* returns with its next step.
C9_Terminates ==
    [][\A t \in Threads :
         LET Rank == [p \in {"idle", "waiting", "locked", "done"} |->
                        CASE p = "idle" -> 3 [] p = "waiting" -> 2
                          [] p = "locked" -> 1 [] p = "done" -> 0]
         IN pc'[t] # pc[t]
            => /\ \/ Rank[pc'[t]] < Rank[pc[t]]
                  \/ pc[t] = "done" /\ pc'[t] = "idle"
               /\ (pc[t] = "locked"
                     /\ carriers[arg[t].chain[1].id].inner.value = NoError)
                    => pc'[t] = "done"]_vars

C9_Witness ==
    \E t \in Threads :
        /\ pc[t] = "done"
        /\ arg[t].chain # <<>> /\ arg[t].chain[1].type = "ErrorEnvelope"
        /\ ~obs[t].took /\ ~obs[t].first /\ ~obs[t].waited

\* C10: a new carrier's slot holds the wrapped error; a slot changes only by
\* an attempt taking its value, which empties it; an empty slot stays empty;
\* so a slot holds the wrapped error or nothing.
C10_SlotMonotone ==
    [][\A c \in DOMAIN carriers' :
         LET new == carriers'[c].inner.value IN
         /\ new \in {NoError, hist'[c].wrapped}
         /\ c \notin DOMAIN carriers => (new = hist'[c].wrapped /\ new # NoError)
         /\ c \in DOMAIN carriers
              => LET old == carriers[c].inner.value IN
                 /\ old = NoError => new = NoError
                 /\ new # old
                      => /\ new = NoError
                         /\ \E t \in Threads :
                              /\ pc[t] = "locked" /\ pc'[t] = "done"
                              /\ obs'[t].took /\ result'[t] = old]_vars

C10_Witness ==
    \E c \in DOMAIN carriers : \E t \in Threads :
        /\ carriers[c].inner.value = NoError
        /\ hist[c].extracted = 1
        /\ pc[t] = "locked" /\ arg[t] = traps[c]

====
